---- MODULE Spec2Model ----
(***************************************************************************)
(* A model of ghsum, the GitHub repository summarizer.                     *)
(*                                                                         *)
(* Text is a sequence of one-character strings.  The markdown cleaning of  *)
(* ghsum/cli/main.py and ghsum/core/summarizer.py is written out regular   *)
(* expression by regular expression, with Python's leftmost, backtracking  *)
(* matching.                                                               *)
(***************************************************************************)
EXTENDS Integers, Sequences, FiniteSets, TLC

\* ------------------------------------------------------------------------
\* Bounds of the model
\* ------------------------------------------------------------------------

\* the most languages of a profile handed to _top_langs, and the largest
\* byte count
MaxLangs == 4
MaxBytes == 2
\* the longest input text, in tokens of Tokens
MaxTokens == 3
\* the largest word limit handed to _excerpt
MaxWords == 2

\* ------------------------------------------------------------------------
\* Characters and Python's string primitives
\* ------------------------------------------------------------------------

NL == "\n"
SP == " "
\* the backtick, written as a tick mark the tools can read inside a string
BT == "@"

\* str.isspace(), and \s of the re module
IsWs(c) == c \in {SP, NL}

\* Python's None where a text is expected: no text holds this element
None == <<"None">>

\* the AttributeError of a method call on None, as a result
AttributeError == <<"AttributeError">>

Min(S) == CHOOSE m \in S : \A n \in S : m <= n

\* s[from:] (1-based, inclusive)
Tail_(s, from) == SubSeq(s, from, Len(s))

\* str.strip()
Strip(s) ==
    LET keep == {i \in 1..Len(s) : ~IsWs(s[i])}
    IN  IF keep = {} THEN <<>>
        ELSE SubSeq(s, Min(keep), CHOOSE m \in keep : \A n \in keep : n <= m)

\* str.splitlines(): no empty last line after a final line break
RECURSIVE SplitLines(_)
SplitLines(s) ==
    IF s = <<>> THEN <<>>
    ELSE LET brk == {i \in 1..Len(s) : s[i] = NL}
         IN  IF brk = {} THEN <<s>>
             ELSE <<SubSeq(s, 1, Min(brk) - 1)>> \o SplitLines(Tail_(s, Min(brk) + 1))

\* str.split(): the maximal runs of non-whitespace characters
RECURSIVE Split(_)
Split(s) ==
    LET keep == {i \in 1..Len(s) : ~IsWs(s[i])}
    IN  IF keep = {} THEN <<>>
        ELSE LET a == Min(keep)
                 ws == {i \in a..Len(s) : IsWs(s[i])}
                 b == IF ws = {} THEN Len(s) + 1 ELSE Min(ws)
             IN  <<SubSeq(s, a, b - 1)>> \o Split(Tail_(s, b))

\* sep.join(parts)
RECURSIVE Join(_, _)
Join(parts, sep) ==
    IF parts = <<>> THEN <<>>
    ELSE IF Len(parts) = 1 THEN parts[1]
    ELSE parts[1] \o sep \o Join(Tail(parts), sep)

\* seq[:n] for n >= 0
Take(seq, n) == SubSeq(seq, 1, IF n < Len(seq) THEN n ELSE Len(seq))

\* ------------------------------------------------------------------------
\* The regular expressions of _excerpt and _clean_markdown
\* ------------------------------------------------------------------------

\* re.search(r"!\[.*\]\(.*\)", ln) on a line ln
IsBadgeLine(ln) ==
    \E i \in 1..Len(ln) : \E j \in 1..Len(ln) : \E k \in 1..Len(ln) :
        /\ i + 2 <= j /\ j + 2 <= k
        /\ ln[i] = "!" /\ ln[i + 1] = "["
        /\ ln[j] = "]" /\ ln[j + 1] = "("
        /\ ln[k] = ")"

\* the lines of text that are no image/badge line
DropBadges(text) == SelectSeq(SplitLines(text), LAMBDA ln : ~IsBadgeLine(ln))

\* \[(.*?)\]\(.*?\) at position i: where "](" starts, "." not matching a line break
LinkMid(s, i) ==
    {j \in i + 1..Len(s) - 1 :
        /\ s[j] = "]" /\ s[j + 1] = "("
        /\ \A m \in i + 1..j - 1 : s[m] # NL}

\* ... and where the closing ")" is, for the first "](" (a later one closes no
\* link the first does not)
LinkEnd(s, j) ==
    {k \in j + 2..Len(s) : s[k] = ")" /\ \A m \in j + 2..k - 1 : s[m] # NL}

LinkAt(s, i) ==
    /\ s[i] = "["
    /\ LinkMid(s, i) # {}
    /\ LinkEnd(s, Min(LinkMid(s, i))) # {}

\* re.sub(r"\[(.*?)\]\(.*?\)", r"\1", s), from position p on
RECURSIVE SubLinksFrom(_, _)
SubLinksFrom(s, p) ==
    IF p > Len(s) THEN <<>>
    ELSE IF LinkAt(s, p)
         THEN LET j == Min(LinkMid(s, p))
                  k == Min(LinkEnd(s, j))
              IN  SubSeq(s, p + 1, j - 1) \o SubLinksFrom(s, k + 1)
         ELSE <<s[p]>> \o SubLinksFrom(s, p + 1)

SubLinks(s) == SubLinksFrom(s, 1)

\* three backticks at position i
Fence(s, i) == i + 2 <= Len(s) /\ s[i] = BT /\ s[i + 1] = BT /\ s[i + 2] = BT

\* re.sub(r"BT{3}.*?BT{3}", "", s, flags=re.S), from position p on
RECURSIVE SubFencesFrom(_, _)
SubFencesFrom(s, p) ==
    IF p > Len(s) THEN <<>>
    ELSE LET close == {j \in p + 3..Len(s) : Fence(s, j)}
         IN  IF Fence(s, p) /\ close # {}
             THEN SubFencesFrom(s, Min(close) + 3)
             ELSE <<s[p]>> \o SubFencesFrom(s, p + 1)

SubFences(s) == SubFencesFrom(s, 1)

\* re.sub(r"BT([^BT]+)BT", r"\1", s), from position p on
RECURSIVE SubInlineFrom(_, _)
SubInlineFrom(s, p) ==
    IF p > Len(s) THEN <<>>
    ELSE LET close == {j \in p + 2..Len(s) : s[j] = BT}
         IN  IF s[p] = BT /\ p + 1 <= Len(s) /\ s[p + 1] # BT /\ close # {}
             THEN SubSeq(s, p + 1, Min(close) - 1) \o SubInlineFrom(s, Min(close) + 1)
             ELSE <<s[p]>> \o SubInlineFrom(s, p + 1)

SubInline(s) == SubInlineFrom(s, 1)

\* the first position at or after p that holds no whitespace (Len(s)+1: none)
SkipWs(s, p) ==
    LET rest == {i \in p..Len(s) : ~IsWs(s[i])}
    IN  IF rest = {} THEN Len(s) + 1 ELSE Min(rest)

\* the first position at or after p that holds no "#"
SkipHashes(s, p) ==
    LET rest == {i \in p..Len(s) : s[i] # "#"}
    IN  IF rest = {} THEN Len(s) + 1 ELSE Min(rest)

\* re.sub(r"^\s*#+\s*", "", s, flags=re.M), from position p on: ^ is the start
\* of the text or the place after a line break, and \s runs over line breaks
RECURSIVE SubHeadingsFrom(_, _)
SubHeadingsFrom(s, p) ==
    IF p > Len(s) THEN <<>>
    ELSE LET a == SkipWs(s, p)
         IN  IF (p = 1 \/ s[p - 1] = NL) /\ a <= Len(s) /\ s[a] = "#"
             THEN SubHeadingsFrom(s, SkipWs(s, SkipHashes(s, a)))
             ELSE <<s[p]>> \o SubHeadingsFrom(s, p + 1)

SubHeadings(s) == SubHeadingsFrom(s, 1)

\* re.sub(r"#+\s*", "", s), from position p on
RECURSIVE SubHashesFrom(_, _)
SubHashesFrom(s, p) ==
    IF p > Len(s) THEN <<>>
    ELSE IF s[p] = "#"
         THEN SubHashesFrom(s, SkipWs(s, SkipHashes(s, p)))
         ELSE <<s[p]>> \o SubHashesFrom(s, p + 1)

SubHashes(s) == SubHashesFrom(s, 1)

\* the length, at most 3, of the run of backticks at position p
TickRun(s, p) ==
    IF p + 2 <= Len(s) /\ s[p] = BT /\ s[p + 1] = BT /\ s[p + 2] = BT THEN 3
    ELSE IF p + 1 <= Len(s) /\ s[p] = BT /\ s[p + 1] = BT THEN 2
    ELSE IF p <= Len(s) /\ s[p] = BT THEN 1
    ELSE 0

\* BT{1,3}.*?BT{1,3} at position p: the position after the match, 0 for no match.
\* The opening takes the whole run (at most 3); the closing is the next
\* backtick of the line; without one, a run of 2 or 3 is opening and closing.
TickSpanEnd(s, p) ==
    LET m == TickRun(s, p)
        close == {q \in p + m..Len(s) :
                    s[q] = BT /\ \A n \in p + m..q - 1 : s[n] # NL}
    IN  IF m = 0 THEN 0
        ELSE IF close # {} THEN Min(close) + TickRun(s, Min(close))
        ELSE IF m >= 2 THEN p + m
        ELSE 0

\* re.sub(r"BT{1,3}.*?BT{1,3}", "", s), from position p on
RECURSIVE SubTickSpansFrom(_, _)
SubTickSpansFrom(s, p) ==
    IF p > Len(s) THEN <<>>
    ELSE IF TickSpanEnd(s, p) # 0
         THEN SubTickSpansFrom(s, TickSpanEnd(s, p))
         ELSE <<s[p]>> \o SubTickSpansFrom(s, p + 1)

SubTickSpans(s) == SubTickSpansFrom(s, 1)

\* ------------------------------------------------------------------------
\* The text normalizer and the extractive summarizer
\* ------------------------------------------------------------------------

\* a paragraph loop that lets a heading line stand alone
RECURSIVE FirstParaHeadingAlone(_, _)
FirstParaHeadingAlone(lines, para) ==
    IF lines = <<>> THEN para
    ELSE IF Strip(lines[1]) # <<>> /\ Strip(lines[1])[1] = "#" /\ para = <<>>
    THEN <<lines[1]>>
    ELSE IF Strip(lines[1]) # <<>>
    THEN FirstParaHeadingAlone(Tail(lines), Append(para, lines[1]))
    ELSE IF para # <<>> THEN para
    ELSE FirstParaHeadingAlone(Tail(lines), para)

\* the first maximal run of non-blank lines
RECURSIVE FirstPara(_, _)
FirstPara(lines, para) ==
    IF lines = <<>> THEN para
    ELSE IF Strip(lines[1]) # <<>> THEN FirstPara(Tail(lines), Append(para, lines[1]))
    ELSE IF para # <<>> THEN para
    ELSE FirstPara(Tail(lines), para)

StripEach(lines) == [i \in 1..Len(lines) |-> Strip(lines[i])]

\* a slice that keeps one word more: words[: word_limit + 1]
ExcerptWordsOneMore(words, word_limit) == Take(words, word_limit + 1)

\* words[:word_limit], as _excerpt slices it
ExcerptWords(words, word_limit) == Take(words, word_limit)

\* word_limit of _excerpt when summarize_repo calls it
DefaultWordLimit == 500

\* _excerpt(text, word_limit)
_excerpt(text, word_limit) ==
    LET para == FirstPara(DropBadges(text), <<>>)
        raw == IF para # <<>> THEN Join(para, <<SP>>) ELSE text
        words == Split(SubHashes(SubTickSpans(SubLinks(raw))))
    IN  Strip(Join(ExcerptWords(words, word_limit), <<SP>>))

\* _clean_markdown(text)
_clean_markdown(text) ==
    LET raw == Join(DropBadges(text), <<NL>>)
    IN  Strip(SubHeadings(SubInline(SubFences(SubLinks(raw)))))

\* the word cap of the extractive summarizer
WordCap == 90

\* a slice that keeps one word more
SummaryWordsOneMore(words) == Take(words, WordCap + 1)

\* words[:90], as basic_summary slices it
SummaryWords(words) == Take(words, WordCap)

\* a choice that asks the description first
ChosenTextDescriptionFirst(repo_name, base_text, description) ==
    IF Strip(description) # <<>> THEN Strip(description)
    ELSE IF Strip(base_text) # <<>> THEN Strip(base_text)
    ELSE repo_name

\* the text basic_summary works on: base_text.strip() or description.strip()
\* or repo_name
ChosenText(repo_name, base_text, description) ==
    IF Strip(base_text) # <<>> THEN Strip(base_text)
    ELSE IF Strip(description) # <<>> THEN Strip(description)
    ELSE repo_name

\* basic_summary(repo_name, base_text, description); base_text.strip() raises
\* AttributeError on None
basic_summary(repo_name, base_text, description) ==
    IF base_text = None THEN AttributeError
    ELSE LET text == _clean_markdown(ChosenText(repo_name, base_text, description))
             para == StripEach(FirstPara(SplitLines(text), <<>>))
             raw == IF para # <<>> THEN Join(para, <<SP>>) ELSE text
         IN  Strip(Join(SummaryWords(Split(raw)), <<SP>>))

\* k of _top_langs
TopK == 3

\* a sort that puts the later of two pairs of equal count first
RECURSIVE SortedLaterFirst(_)
SortedLaterFirst(pairs) ==
    IF pairs = <<>> THEN <<>>
    ELSE LET tops == {i \in 1..Len(pairs) : \A j \in 1..Len(pairs) : pairs[j][2] <= pairs[i][2]}
             top == CHOOSE i \in tops : \A j \in tops : j <= i
         IN  <<pairs[top]>> \o SortedLaterFirst(SubSeq(pairs, 1, top - 1)
                                                   \o SubSeq(pairs, top + 1, Len(pairs)))

\* sorted(lang_bytes.items(), key=lambda kv: kv[1], reverse=True): pairs is the
\* mapping in its order; the sort is stable, so pairs of equal count keep
\* their order
RECURSIVE SortedByBytes(_)
SortedByBytes(pairs) ==
    IF pairs = <<>> THEN <<>>
    ELSE LET top == Min({i \in 1..Len(pairs) : \A j \in 1..Len(pairs) : pairs[j][2] <= pairs[i][2]})
         IN  <<pairs[top]>> \o SortedByBytes(SubSeq(pairs, 1, top - 1)
                                                \o SubSeq(pairs, top + 1, Len(pairs)))

\* _top_langs(lang_bytes)
_top_langs(lang_bytes) ==
    LET top == Take(SortedByBytes(lang_bytes), TopK)
    IN  [i \in 1..Len(top) |-> top[i][1]]

\* ------------------------------------------------------------------------
\* The remote repository client (ghsum/core/github.py)
\* ------------------------------------------------------------------------

\* the listing asks for at most this many pages before the model stops it
MaxPages == 2
\* the most items of one page of the model (per_page=100 in the code)
MaxBatch == 2

\* r.raise_for_status(): httpx raises HTTPStatusError unless the status is 2xx
RaisesForStatus(status) == status \div 100 # 2

\* the error raise_for_status raises, as a result
HTTPStatusError == <<"HTTPStatusError">>

\* the statuses the remote API answers with
Statuses == {200, 403, 404, 500}
ErrorStatuses == {st \in Statuses : RaisesForStatus(st)}

\* the texts of the model that are written out in full
DescCli == <<"A", " ", "C", "L", "I", " ", "t", "o", "o", "l">>
ReadmeTitle == <<"#", " ", "T", NL, "a", " ", "b">>

\* repository objects of GET /users/{owner}/repos
Repo(name, fork, archived, description) ==
    [name |-> name, html_url |-> <<"u">> \o name, description |-> description,
     fork |-> fork, archived |-> archived]

\* every sequence over S of length at most n
RECURSIVE SeqsUpTo(_, _)
SeqsUpTo(S, n) ==
    IF n = 0 THEN {<<>>}
    ELSE LET shorter == SeqsUpTo(S, n - 1)
         IN  shorter \cup {Append(q, x) : q \in {r \in shorter : Len(r) = n - 1}, x \in S}

\* the answers to one page request: a 2xx with a batch, or an error status
ListResponses(items) ==
    {[status |-> 200, batch |-> b] : b \in SeqsUpTo(items, MaxBatch)}
        \cup {[status |-> st, batch |-> <<>>] : st \in ErrorStatuses}

\* a filter whose archived test asks the forks flag
KeptByForksFlag(item, forks, archived) ==
    /\ ~(~forks /\ item.fork)
    /\ ~(~forks /\ item.archived)

\* the test of the loop body of list_user_repos: the item is appended
Kept(item, forks, archived) ==
    /\ ~(~forks /\ item.fork)
    /\ ~(~archived /\ item.archived)

\* the items of one batch that list_user_repos appends to results
FilterBatch(batch, forks, archived) ==
    SelectSeq(batch, LAMBDA item : Kept(item, forks, archived))

\* a loop that asks for the same page again
NextPageSame(p) == p

\* page += 1
NextPage(p) == p + 1

\* the base64 alphabet: the character of sextet v is B64Alphabet[v + 1]
B64Alphabet ==
    <<"A", "B", "C", "D", "E", "F", "G", "H", "I", "J", "K", "L", "M",
     "N", "O", "P", "Q", "R", "S", "T", "U", "V", "W", "X", "Y", "Z",
     "a", "b", "c", "d", "e", "f", "g", "h", "i", "j", "k", "l", "m",
     "n", "o", "p", "q", "r", "s", "t", "u", "v", "w", "x", "y", "z",
     "0", "1", "2", "3", "4", "5", "6", "7", "8", "9", "+", "/">>

\* the characters of the texts of the model with their ASCII codes (BT is the
\* backtick, code 96)
Ascii ==
    <<<<"\n", 10>>, <<" ", 32>>, <<"!", 33>>,
     <<"#", 35>>, <<"(", 40>>, <<")", 41>>,
     <<"A", 65>>, <<"C", 67>>, <<"I", 73>>,
     <<"L", 76>>, <<"T", 84>>, <<"[", 91>>,
     <<"]", 93>>, <<"@", 96>>, <<"a", 97>>,
     <<"b", 98>>, <<"l", 108>>, <<"o", 111>>,
     <<"t", 116>>, <<"u", 117>>>>

Ord(c) == Ascii[CHOOSE i \in 1..Len(Ascii) : Ascii[i][1] = c][2]

\* text.encode("utf-8") of a text of these characters
Utf8Encode(text) == [i \in 1..Len(text) |-> Ord(text[i])]

\* bytes.decode("utf-8", errors="ignore"): a byte that decodes to no character
\* is left out
Utf8DecodeIgnore(bytes) ==
    LET known == SelectSeq(bytes, LAMBDA b : \E i \in 1..Len(Ascii) : Ascii[i][2] = b)
    IN  [i \in 1..Len(known) |-> Ascii[CHOOSE j \in 1..Len(Ascii) : Ascii[j][2] = known[i]][1]]

B64Char(v) == B64Alphabet[v + 1]
B64Val(c) == (CHOOSE i \in 1..64 : B64Alphabet[i] = c) - 1

\* the content field GitHub sends for the bytes of a README: base64 with
\* "=" padding
RECURSIVE B64Encode(_)
B64Encode(bytes) ==
    IF bytes = <<>> THEN <<>>
    ELSE LET b1 == bytes[1]
             b2 == IF Len(bytes) >= 2 THEN bytes[2] ELSE 0
             b3 == IF Len(bytes) >= 3 THEN bytes[3] ELSE 0
             c1 == B64Char(b1 \div 4)
             c2 == B64Char((b1 % 4) * 16 + b2 \div 16)
             c3 == B64Char((b2 % 16) * 4 + b3 \div 64)
             c4 == B64Char(b3 % 64)
         IN  IF Len(bytes) = 1 THEN <<c1, c2, "=", "=">>
             ELSE IF Len(bytes) = 2 THEN <<c1, c2, c3, "=">>
             ELSE <<c1, c2, c3, c4>> \o B64Encode(Tail_(bytes, 4))

\* the groups of four characters of base64 data, decoded
RECURSIVE B64Groups(_)
B64Groups(cs) ==
    IF Len(cs) < 4 THEN <<>>
    ELSE LET v1 == B64Val(cs[1])
             v2 == B64Val(cs[2])
             v3 == IF cs[3] = "=" THEN 0 ELSE B64Val(cs[3])
             v4 == IF cs[4] = "=" THEN 0 ELSE B64Val(cs[4])
             b1 == v1 * 4 + v2 \div 16
             b2 == (v2 % 16) * 16 + v3 \div 4
             b3 == (v3 % 4) * 64 + v4
         IN  IF cs[3] = "=" THEN <<b1>>
             ELSE IF cs[4] = "=" THEN <<b1, b2>>
             ELSE <<b1, b2, b3>> \o B64Groups(Tail_(cs, 5))

\* base64.b64decode(content): characters outside the alphabet (the line
\* breaks GitHub puts into content) are discarded before decoding
b64decode(content) ==
    B64Groups(SelectSeq(content,
                        LAMBDA c : c = "=" \/ \E i \in 1..64 : B64Alphabet[i] = c))

\* the answers to GET /repos/{owner}/{repo}/readme for a repository whose
\* README is text: an error status, or a 2xx whose object may name an encoding
\* and may carry content
ReadmeResponses(texts) ==
    {[status |-> st, encoding |-> "", has_content |-> FALSE, content |-> <<>>,
      text |-> <<>>] : st \in ErrorStatuses}
        \cup {[status |-> 200, encoding |-> enc, has_content |-> has,
               content |-> IF has THEN B64Encode(Utf8Encode(t)) \o <<NL>> ELSE <<>>,
               text |-> t] :
                  enc \in {"base64", "utf-8", "none", ""}, has \in BOOLEAN, t \in texts}

\* the 2xx branch of get_readme: data.get("encoding") == "base64" and
\* "content" in data
IsBase64Content(resp) == resp.encoding = "base64" /\ resp.has_content

\* get_readme with raise_for_status ahead of the 404 test
get_readme_raise_first(resp) ==
    IF RaisesForStatus(resp.status) THEN HTTPStatusError
    ELSE IF resp.status = 404 THEN None
    ELSE IF IsBase64Content(resp) THEN Utf8DecodeIgnore(b64decode(resp.content))
    ELSE None

\* get_readme(owner, repo) on the response resp
get_readme(resp) ==
    IF resp.status = 404 THEN None
    ELSE IF RaisesForStatus(resp.status) THEN HTTPStatusError
    ELSE IF IsBase64Content(resp) THEN Utf8DecodeIgnore(b64decode(resp.content))
    ELSE None

\* the answers to GET /repos/{owner}/{repo}/languages: langs is the mapping
\* language -> bytes in the order of the response
LangResponses(profiles) ==
    {[status |-> st, langs |-> <<>>] : st \in ErrorStatuses}
        \cup {[status |-> 200, langs |-> l] : l \in profiles}

\* a get_languages that takes every answer for its mapping
get_languages_lenient(resp) == [raised |-> FALSE, langs |-> resp.langs]

\* get_languages(owner, repo) on the response resp
get_languages(resp) ==
    IF RaisesForStatus(resp.status) THEN [raised |-> TRUE, langs |-> <<>>]
    ELSE [raised |-> FALSE, langs |-> resp.langs]

\* ------------------------------------------------------------------------
\* The generative summarizer (ghsum/summarizer.py, ghsum/core/summarizer.py)
\* ------------------------------------------------------------------------

\* the longest technology list of a backend answer of the model
MaxTechs == 7

\* len(v) > 5 in validate_technologies
TechLimit == 5

\* the literals of RepositorySummary and of its safe default
StrMedium == <<"m", "e", "d", "i", "u", "m">>
StrSimple == <<"s", "i", "m", "p", "l", "e">>
StrComplex == <<"c", "o", "m", "p", "l", "e", "x">>
StrDevelopers == <<"d", "e", "v", "e", "l", "o", "p", "e", "r", "s">>
StrRepositorySummary == <<"R", "e", "p", "o", "s", "i", "t", "o", "r", "y", " ", "s", "u", "m", "m", "a", "r", "y">>
StrSoftwareProject == <<"S", "o", "f", "t", "w", "a", "r", "e", " ", "p", "r", "o", "j", "e", "c", "t">>

\* str.lower() on the letters of the model
UpperLower == <<<<"G", "g">>, <<"O", "o">>, <<"M", "m">>, <<"E", "e">>, <<"D", "d">>,
                <<"I", "i">>, <<"U", "u">>, <<"S", "s">>>>
LowerChar(c) ==
    IF \E i \in 1..Len(UpperLower) : UpperLower[i][1] = c
    THEN UpperLower[CHOOSE i \in 1..Len(UpperLower) : UpperLower[i][1] = c][2]
    ELSE c
Lower(str) == [i \in 1..Len(str) |-> LowerChar(str[i])]

\* The text of a backend answer to the structured prompt is a sequence of
\* tokens: prose, an opening brace, a closing brace, or a run of members of a
\* JSON object.  members: the keys it gives, their values, and the keys whose
\* value has a JSON type the schema does not take (wrong).
NoMembers ==
    [keys |-> {}, wrong |-> {}, name |-> <<>>, description |-> <<>>, purpose |-> <<>>,
     technologies |-> <<>>, complexity |-> <<>>, target_audience |-> <<>>]
Prose == [t |-> "prose", m |-> NoMembers]
LBrace == [t |-> "{", m |-> NoMembers]
RBrace == [t |-> "}", m |-> NoMembers]
Members(m) == [t |-> "members", m |-> m]

\* response_text.find('{') and response_text.rfind('}'): 0-based, -1 for none
Find(resp, tok) ==
    LET at == {i \in 1..Len(resp) : resp[i].t = tok}
    IN  IF at = {} THEN -1 ELSE Min(at) - 1
RFind(resp, tok) ==
    LET at == {i \in 1..Len(resp) : resp[i].t = tok}
    IN  IF at = {} THEN -1 ELSE (CHOOSE m \in at : \A n \in at : n <= m) - 1

\* response_text[json_start:json_end]
JsonText(resp) == SubSeq(resp, Find(resp, "{") + 1, RFind(resp, "}") + 1)

\* json_start != -1 and json_end > json_start
HasJsonSpan(resp) == Find(resp, "{") # -1 /\ RFind(resp, "}") + 1 > Find(resp, "{")

\* json.loads(span) succeeds: one object, its members between its two braces
Decodable(span) ==
    /\ Len(span) >= 2
    /\ span[1].t = "{"
    /\ span[Len(span)].t = "}"
    /\ \A i \in 2..Len(span) - 1 : span[i].t = "members"

\* a later member of an object replaces an earlier one of the same key
Merge(a, b) ==
    [keys |-> a.keys \cup b.keys,
     wrong |-> (a.wrong \ b.keys) \cup b.wrong,
     name |-> IF "name" \in b.keys THEN b.name ELSE a.name,
     description |-> IF "description" \in b.keys THEN b.description ELSE a.description,
     purpose |-> IF "purpose" \in b.keys THEN b.purpose ELSE a.purpose,
     technologies |-> IF "technologies" \in b.keys THEN b.technologies ELSE a.technologies,
     complexity |-> IF "complexity" \in b.keys THEN b.complexity ELSE a.complexity,
     target_audience |->
         IF "target_audience" \in b.keys THEN b.target_audience ELSE a.target_audience]

\* json.loads(span) of a decodable span: the dict of its members
RECURSIVE MergeAll(_)
MergeAll(toks) ==
    IF toks = <<>> THEN NoMembers
    ELSE Merge(toks[1].m, MergeAll(Tail(toks)))

JsonLoads(span) == MergeAll(SubSeq(span, 2, Len(span) - 1))

\* a length test that counts the entries left after the blank ones are dropped
TooManyAfterCleaning(v) ==
    Len(SelectSeq(v, LAMBDA tech : Strip(tech) # <<>>)) > TechLimit

\* validate_technologies raises ValueError
TooManyTechnologies(v) == Len(v) > TechLimit

\* [tech.lower().strip() for tech in v if tech.strip()]
CleanTechnologies(v) ==
    LET kept == SelectSeq(v, LAMBDA tech : Strip(tech) # <<>>)
    IN  [i \in 1..Len(kept) |-> Strip(Lower(kept[i]))]

\* validate_complexity accepts v
ComplexityAllowed(v) == Lower(v) \in {StrSimple, StrMedium, StrComplex}

\* the fields of RepositorySummary without a default
RequiredFields == {"name", "description", "purpose", "technologies"}

\* RepositorySummary(**d) raises ValidationError (a ValueError)
Invalid(d) ==
    \/ ~(RequiredFields \subseteq d.keys)
    \/ d.wrong # {}
    \/ TooManyTechnologies(d.technologies)
    \/ "complexity" \in d.keys /\ ~ComplexityAllowed(d.complexity)

\* RepositorySummary(**d) of a dict that validates
RepositorySummary(d) ==
    [name |-> d.name,
     description |-> d.description,
     purpose |-> d.purpose,
     technologies |-> CleanTechnologies(d.technologies),
     complexity |-> IF "complexity" \in d.keys THEN Lower(d.complexity) ELSE StrMedium,
     target_audience |->
         IF "target_audience" \in d.keys THEN d.target_audience ELSE StrDevelopers]

\* a default that takes the description as it is, empty or not
SafeDefaultNoPlaceholder(repo_name, description) ==
    [name |-> repo_name,
     description |-> description,
     purpose |-> StrSoftwareProject,
     technologies |-> <<>>,
     complexity |-> StrMedium,
     target_audience |-> StrDevelopers]

\* the record both except branches of summarize_structured return
SafeDefault(repo_name, description) ==
    [name |-> repo_name,
     description |-> IF description # <<>> THEN description ELSE StrRepositorySummary,
     purpose |-> StrSoftwareProject,
     technologies |-> <<>>,
     complexity |-> StrMedium,
     target_audience |-> StrDevelopers]

\* no record: the value of the record field of a result that carries none
NoRecord ==
    [name |-> <<>>, description |-> <<>>, purpose |-> <<>>, technologies |-> <<>>,
     complexity |-> <<>>, target_audience |-> <<>>]

\* A reply of the backend: ok is FALSE for a timeout, a connection failure or
\* a non-2xx status; text is the response of a plain prompt, tokens the
\* response of the structured prompt; json: text is a JSON document.
Reply(ok, text, json, tokens) == [ok |-> ok, text |-> text, json |-> json, tokens |-> tokens]
FailedReply == Reply(FALSE, <<>>, FALSE, <<>>)

\* what a summarizer call gives back: raised, or a text, or a record
Raised == [raised |-> TRUE, text |-> <<>>, decoded |-> FALSE, rec |-> NoRecord]
Returned(text, decoded, rec) ==
    [raised |-> FALSE, text |-> text, decoded |-> decoded, rec |-> rec]

\* the try block of summarize_structured after the answer has arrived
ParseStructured(repo_name, description, resp) ==
    IF HasJsonSpan(resp) /\ Decodable(JsonText(resp)) /\ ~Invalid(JsonLoads(JsonText(resp)))
    THEN RepositorySummary(JsonLoads(JsonText(resp)))
    ELSE SafeDefault(repo_name, description)

\* OllamaSummarizer.summarize_structured(repo_name, base_text, description,
\* langs) of ghsum/summarizer.py on the backend's reply
summarize_structured(repo_name, description, reply) ==
    IF ~reply.ok THEN Returned(<<>>, FALSE, SafeDefault(repo_name, description))
    ELSE Returned(<<>>, FALSE, ParseStructured(repo_name, description, reply.tokens))

\* OllamaSummarizer.summarize of ghsum/summarizer.py on the backend's reply:
\* the except branch raises again
summarize(reply) ==
    IF ~reply.ok THEN Raised
    ELSE Returned(Strip(reply.text), FALSE, NoRecord)

\* OllamaSummarizer.summarize of ghsum/core/summarizer.py: chain.invoke
\* raises; json.loads(response) is returned when the response decodes
core_summarize(reply) ==
    IF ~reply.ok THEN Raised
    ELSE Returned(reply.text, reply.json, NoRecord)

\* ------------------------------------------------------------------------
\* State
\* ------------------------------------------------------------------------

VARIABLES
    \* a call of a text function: its text, the function, its other
    \* arguments, its result
    tText, tFn, tLimit, tName, tDesc, tOut,
    \* a call of _top_langs: the language profile and the result
    lProfile, lTop,
    \* list_user_repos: its arguments, its locals page and results, the page
    \* requests made with their answers, and where the call stands
    include_forks, include_archived, page, results, listLog, listState,
    \* a call of get_readme or get_languages: the call, the response, the result
    cCall, readmeResp, readmeRet, langResp, langRet,
    \* a call of a method of a generative summarizer: its arguments, the
    \* method, the reply of the backend, the result
    gName, gDesc, gFn, gReply, gRet,
    \* a run of main: the parsed arguments, where the run stands, the
    \* summarizer object, the listing's result, the item and readme_text of
    \* the summarize_repo call under way, the items built, the requests made
    \* for the repositories, the exception that ended the run, what was printed
    opts, pc, summarizer_obj, repos, item, readme_text, items, calls, error, output,
    \* the invocations of the summarization strategy by summarize_repo: the
    \* repository, the base_text of line 135 and the argument handed over
    strategy,
    \* answers[i] is what the remote or the backend answered to calls[i]
    answers,
    \* the configuration of a run: what the command line, the environment and
    \* config.toml give, the Settings load_settings makes of them, the
    \* effective settings of main, and how far main has got with them
    confCli, confEnv, confFile, settings, effective, confPc

textVars == <<tText, tFn, tLimit, tName, tDesc, tOut, lProfile, lTop>>
listVars == <<include_forks, include_archived, page, results, listLog, listState>>
callVars == <<cCall, readmeResp, readmeRet, langResp, langRet>>
genVars == <<gName, gDesc, gFn, gReply, gRet>>
runVars ==
    <<opts, pc, summarizer_obj, repos, item, readme_text, items, calls, error, output,
      strategy, answers>>
confVars == <<confCli, confEnv, confFile, settings, effective, confPc>>
vars == <<textVars, listVars, callVars, genVars, runVars, confVars>>

\* ------------------------------------------------------------------------
\* Inputs
\* ------------------------------------------------------------------------

\* the pieces input texts are made of: words, a blank, a line break, a
\* heading marker, a backtick, a fence, a link, a badge
Tokens ==
    {<<"a", SP>>, <<"b">>, <<SP>>, <<NL>>, <<"#", SP>>, <<BT>>, <<BT, BT, BT>>,
     <<"[", "a", "]", "(", "u", ")">>,
     <<"!", "[", "a", "]", "(", "u", ")">>}

\* every text of at most n tokens
RECURSIVE TextsUpTo(_)
TextsUpTo(n) ==
    IF n = 0 THEN {<<>>}
    ELSE LET shorter == TextsUpTo(n - 1)
         IN  shorter \cup {t \o tok : t \in shorter, tok \in Tokens}

\* a README of a badge line, a blank line, a heading and a line of prose
ScenarioReadme ==
    <<"!", "[", "b", "a", "d", "g", "e", "]", "(", "x", ".", "p", "n", "g",
      ")", NL, NL, "#", " ", "T", "i", "t", "l", "e", NL, "F", "i", "r",
      "s", "t", " ", "p", "a", "r", "a", "g", "r", "a", "p", "h", " ", "t",
      "e", "x", "t", " ", "h", "e", "r", "e", ".">>

\* n times the word w, a blank between two
Words(n, w) == [i \in 1..2 * n - 1 |-> IF i % 2 = 1 THEN w ELSE SP]

\* a text whose first paragraph has 95 words on two lines
LongProse == Words(50, "a") \o <<NL>> \o Words(45, "b") \o <<NL, NL, "a">>

\* longer texts: two paragraphs, a badge before a heading and its paragraph,
\* a heading over a paragraph, a description
LongTexts ==
    {<<"a", SP, "b", NL, "b", NL, NL, "b", SP, "a">>,
     <<"!", "[", "a", "]", "(", "u", ")", NL, NL, "#", SP, "T", NL, "a", SP, "b">>,
     ReadmeTitle, DescCli, ScenarioReadme, LongProse}

Texts == TextsUpTo(MaxTokens) \cup LongTexts

RepoName1 == <<"r", "1">>
RepoName2 == <<"r", "2">>

\* the repository names and descriptions handed to the summarizers
SummaryNames == {<<>>, RepoName1}
SummaryDescs == {<<>>, <<SP>>, DescCli}

\* the repository objects the remote lists
ClientItems == {Repo(RepoName1, f, a, <<>>) : f \in BOOLEAN, a \in BOOLEAN}

\* the READMEs and language profiles of the remote
ClientReadmes == {<<>>, <<"a">>, <<"a", "b">>, ReadmeTitle, DescCli}
ClientProfiles == {<<>>, <<<<"Go", 5>>, <<"C", 7>>>>}

\* ------------------------------------------------------------------------
\* The text functions, called on their own
\* ------------------------------------------------------------------------

NoText == <<"-">>

\* the language profiles: the languages of the response in its order, each
\* once, with their byte counts
LangNames == {"C", "Go", "JS", "Py", "Sh"}
Profiles ==
    {p \in SeqsUpTo(LangNames \X (1..MaxBytes), MaxLangs) :
        \A i \in 1..Len(p) : \A j \in 1..Len(p) : p[i][1] = p[j][1] => i = j}
NoProfile == <<<<"-", 0>>>>

\* a text for the text functions, or a profile for _top_langs
TextInit ==
    /\ \/ tText \in Texts /\ lProfile = NoProfile
       \/ tText = <<>> /\ lProfile \in Profiles
    /\ lTop = <<>>
    /\ tFn = "none"
    /\ tLimit = 0
    /\ tName = <<>>
    /\ tDesc = <<>>
    /\ tOut = NoText

TextIdle ==
    /\ lProfile = NoProfile
    /\ lTop = <<>>
    /\ tText = <<>>
    /\ tFn = "idle"
    /\ tLimit = 0
    /\ tName = <<>>
    /\ tDesc = <<>>
    /\ tOut = NoText

\* _excerpt(text, word_limit)
CallExcerpt ==
    /\ tFn = "none"
    /\ lProfile = NoProfile
    /\ \E n \in 0..MaxWords \cup {DefaultWordLimit} :
        /\ tLimit' = n
        /\ tOut' = _excerpt(tText, n)
    /\ tFn' = "_excerpt"
    /\ UNCHANGED <<tText, tName, tDesc, lProfile, lTop, listVars, callVars, genVars, runVars, confVars>>

\* _clean_markdown(text)
CallCleanMarkdown ==
    /\ tFn = "none"
    /\ lProfile = NoProfile
    /\ tFn' = "_clean_markdown"
    /\ tOut' = _clean_markdown(tText)
    /\ UNCHANGED <<tText, tLimit, tName, tDesc, lProfile, lTop, listVars, callVars, genVars, runVars, confVars>>

\* basic_summary(repo_name, base_text, description)
CallBasicSummary ==
    /\ tFn = "none"
    /\ lProfile = NoProfile
    /\ \E n \in SummaryNames : \E d \in SummaryDescs :
        /\ tName' = n
        /\ tDesc' = d
        /\ tOut' = basic_summary(n, tText, d)
    /\ tFn' = "basic_summary"
    /\ UNCHANGED <<tText, tLimit, lProfile, lTop, listVars, callVars, genVars, runVars, confVars>>

\* _top_langs(lang_bytes)
CallTopLangs ==
    /\ tFn = "none"
    /\ lProfile # NoProfile
    /\ lTop' = _top_langs(lProfile)
    /\ tFn' = "_top_langs"
    /\ UNCHANGED <<tText, tLimit, tName, tDesc, tOut, lProfile, listVars, callVars, genVars,
                   runVars, confVars>>

\* ------------------------------------------------------------------------
\* The client functions, called on their own
\* ------------------------------------------------------------------------

\* a loop that takes an error answer for the end of the listing
PageOutcomeErrorBreak(resp) ==
    IF RaisesForStatus(resp.status) THEN "break"
    ELSE IF resp.batch = <<>> THEN "break"
    ELSE "continue"

\* a loop that also breaks on a page shorter than a full one
PageOutcomeShortBreak(resp) ==
    IF RaisesForStatus(resp.status) THEN "raise"
    ELSE IF Len(resp.batch) < MaxBatch THEN "break"
    ELSE "continue"

\* what list_user_repos does with the answer to a page request: raise
\* (raise_for_status), break (not batch), or filter, append and go on
PageOutcome(resp) ==
    IF RaisesForStatus(resp.status) THEN "raise"
    ELSE IF resp.batch = <<>> THEN "break"
    ELSE "continue"

ListStart ==
    /\ page = 1
    /\ results = <<>>
    /\ listLog = <<>>

ListIdle ==
    /\ include_forks = FALSE
    /\ include_archived = FALSE
    /\ ListStart
    /\ listState = "idle"

\* one round of the while loop of list_user_repos: the request of page, its
\* answer, and what the loop does with it; the break returns results
ListPage(responses) ==
    /\ listState = "running"
    /\ page <= MaxPages
    /\ \E resp \in responses :
        /\ listLog' = Append(listLog, [page |-> page, status |-> resp.status,
                                       batch |-> resp.batch])
        /\ listState' = CASE PageOutcome(resp) = "raise" -> "raised"
                          [] PageOutcome(resp) = "break" -> "returned"
                          [] OTHER -> "running"
        /\ results' = IF PageOutcome(resp) = "continue"
                      THEN results \o FilterBatch(resp.batch, include_forks,
                                                  include_archived)
                      ELSE results
        /\ page' = IF PageOutcome(resp) = "continue" THEN NextPage(page) ELSE page
    /\ UNCHANGED <<include_forks, include_archived>>

NoReadmeResp ==
    [status |-> 0, encoding |-> "", has_content |-> FALSE, content |-> <<>>, text |-> <<>>]
NoLangResp == [status |-> 0, langs |-> <<>>]
NoLangs == [raised |-> FALSE, langs |-> <<>>]

CallIdle ==
    /\ readmeResp = NoReadmeResp
    /\ readmeRet = NoText
    /\ langResp = NoLangResp
    /\ langRet = NoLangs

ClientInit ==
    /\ cCall \in {"list_user_repos", "get_readme", "get_languages"}
    /\ include_forks \in BOOLEAN
    /\ include_archived \in BOOLEAN
    /\ ListStart
    /\ listState = IF cCall = "list_user_repos" THEN "running" ELSE "idle"
    /\ CallIdle

CallListPage ==
    /\ cCall = "list_user_repos"
    /\ ListPage(ListResponses(ClientItems))
    /\ UNCHANGED <<textVars, callVars, genVars, runVars, confVars>>

\* get_readme(owner, repo)
CallGetReadme ==
    /\ cCall = "get_readme"
    /\ \E resp \in ReadmeResponses(ClientReadmes) :
        /\ readmeResp' = resp
        /\ readmeRet' = get_readme(resp)
    /\ cCall' = "done"
    /\ UNCHANGED <<langResp, langRet, textVars, listVars, genVars, runVars, confVars>>

\* get_languages(owner, repo)
CallGetLanguages ==
    /\ cCall = "get_languages"
    /\ \E resp \in LangResponses(ClientProfiles) :
        /\ langResp' = resp
        /\ langRet' = get_languages(resp)
    /\ cCall' = "done"
    /\ UNCHANGED <<readmeResp, readmeRet, textVars, listVars, genVars, runVars, confVars>>

\* ------------------------------------------------------------------------
\* The generative summarizer, called on its own
\* ------------------------------------------------------------------------

\* the entries technology lists are made of: a name, a blank, the name in
\* lower case
TechPool == <<<<"G", "o">>, <<SP>>, <<"g", "o">>>>
TechList(n, k) == [i \in 1..n |-> TechPool[((i + k) % 3) + 1]]
TechLists == {TechList(n, k) : n \in 0..MaxTechs, k \in 0..2}

\* the name a backend answer gives the repository
AnswerName == <<"x">>

\* the members of a complete answer with the technology list techs
FullMembers(techs) ==
    [keys |-> RequiredFields, wrong |-> {}, name |-> AnswerName,
     description |-> <<"a", SP, "b">>, purpose |-> <<"b">>, technologies |-> techs,
     complexity |-> <<>>, target_audience |-> <<>>]

WithComplexity(m, c) ==
    [m EXCEPT !.keys = @ \cup {"complexity"}, !.complexity = c]

MemberSets ==
    {FullMembers(t) : t \in TechLists}
        \cup {WithComplexity(FullMembers(t), c) :
                t \in {TechList(2, 0), TechList(6, 0)},
                c \in {<<"M", "e", "d", "i", "u", "m">>, <<"h", "u", "g", "e">>}}
        \cup {[FullMembers(TechList(2, 0)) EXCEPT !.keys = @ \ {"name"}, !.name = <<>>],
              [FullMembers(<<>>) EXCEPT !.wrong = {"technologies"}],
              WithComplexity(NoMembers, StrSimple)}

\* the texts the backend answers the structured prompt with
StructTexts ==
    LET mids == {<<>>, <<LBrace>>, <<RBrace>>, <<RBrace, LBrace>>, <<LBrace, RBrace>>,
                 <<LBrace, Prose, RBrace>>}
                    \cup {<<LBrace, Members(m), RBrace>> : m \in MemberSets}
                    \cup {<<LBrace, Members(FullMembers(TechList(6, 1))),
                            Members(WithComplexity(NoMembers, StrSimple)), RBrace>>}
        pres == {<<>>, <<Prose>>}
        posts == {<<>>, <<Prose>>, <<Prose, LBrace, RBrace>>}
    IN  {pre \o mid \o post : pre \in pres, mid \in mids, post \in posts}

StructReplies == {FailedReply} \cup {Reply(TRUE, <<>>, FALSE, t) : t \in StructTexts}

\* the replies of the backend to a plain prompt
PlainReplies ==
    {FailedReply, Reply(TRUE, <<>>, FALSE, <<>>)}
        \cup {Reply(TRUE, t, j, <<>>) : t \in {<<"a", SP, "b">>, <<SP, "a", NL>>},
                                        j \in BOOLEAN}

NoReply == Reply(FALSE, <<"-">>, FALSE, <<>>)
NoResult == [raised |-> FALSE, text |-> NoText, decoded |-> FALSE, rec |-> NoRecord]

GenInit ==
    /\ gName \in {RepoName1, RepoName2}
    /\ gDesc \in SummaryDescs
    /\ gFn = "none"
    /\ gReply = NoReply
    /\ gRet = NoResult

GenIdle ==
    /\ gName = <<>>
    /\ gDesc = <<>>
    /\ gFn = "idle"
    /\ gReply = NoReply
    /\ gRet = NoResult

\* OllamaSummarizer.summarize of ghsum/summarizer.py
CallSummarize ==
    /\ gFn = "none"
    /\ \E reply \in PlainReplies :
        /\ gReply' = reply
        /\ gRet' = summarize(reply)
    /\ gFn' = "summarize"
    /\ UNCHANGED <<gName, gDesc, textVars, listVars, callVars, runVars, confVars>>

\* OllamaSummarizer.summarize of ghsum/core/summarizer.py
CallCoreSummarize ==
    /\ gFn = "none"
    /\ \E reply \in PlainReplies :
        /\ gReply' = reply
        /\ gRet' = core_summarize(reply)
    /\ gFn' = "core.summarize"
    /\ UNCHANGED <<gName, gDesc, textVars, listVars, callVars, runVars, confVars>>

\* OllamaSummarizer.summarize_structured of ghsum/summarizer.py
CallSummarizeStructured ==
    /\ gFn = "none"
    /\ \E reply \in StructReplies :
        /\ gReply' = reply
        /\ gRet' = summarize_structured(gName, gDesc, reply)
    /\ gFn' = "summarize_structured"
    /\ UNCHANGED <<gName, gDesc, textVars, listVars, callVars, runVars, confVars>>

\* ------------------------------------------------------------------------
\* A run of main (ghsum/cli/main.py)
\* ------------------------------------------------------------------------

BackendError == <<"BackendError">>
NoError == <<"-">>

\* the repositories of the remote account, what the remote answers for their
\* README and languages, and what the backend replies
RunItems == {Repo(RepoName1, FALSE, FALSE, DescCli), Repo(RepoName2, TRUE, FALSE, <<>>)}
RunReadmes == {<<>>, ReadmeTitle, <<"!", "[", "a", "]", "(", "u", ")">>}
RunReadmeResponses ==
    {r \in ReadmeResponses(RunReadmes) :
        \/ r.status \in {404, 500}
        \/ r.status = 200 /\ r.encoding = "base64" /\ r.has_content
        \/ r.status = 200 /\ r.encoding = "utf-8" /\ r.has_content /\ r.text = ReadmeTitle}
RunProfiles ==
    {<<>>, <<<<"C", 5>>, <<"Go", 7>>, <<"Py", 5>>, <<"JS", 7>>>>}
RunLangResponses == {r \in LangResponses(RunProfiles) : r.status \in {200, 500}}
RunReplies ==
    {FailedReply, Reply(TRUE, <<"a", SP, "b">>, FALSE, <<>>), Reply(TRUE, <<"a">>, TRUE, <<>>)}

\* the answers to the next page request of the run: the remote lists a
\* repository of the account once
RunListResponses ==
    {r \in ListResponses(RunItems) :
        /\ \A i \in 1..Len(r.batch) : \A j \in 1..Len(r.batch) :
                r.batch[i] = r.batch[j] => i = j
        /\ \A i \in 1..Len(r.batch) : \A k \in 1..Len(listLog) :
                \A j \in 1..Len(listLog[k].batch) : listLog[k].batch[j] # r.batch[i]}

\* the command lines: --full, --readme, --summarizer, --structured
Options ==
    [full : BOOLEAN, readme : {"none", "excerpt", "full"},
     summarizer : {"basic", "ollama", "other"}, structured : BOOLEAN]

\* the errors that end main before the listing: argparse exits on a value
\* outside choices, get_summarizer raises on an unknown kind
SystemExit == <<"SystemExit">>
ValueError == <<"ValueError">>

\* a parser that takes any value for --summarizer
InChoicesAny(kind) == TRUE

\* --summarizer has choices=["basic", "ollama"]
InChoices(kind) == kind \in {"basic", "ollama"}

\* get_summarizer(kind) of ghsum/core/summarizer.py: None, an
\* OllamaSummarizer of that module, or a ValueError raised
get_summarizer(kind) ==
    IF kind = "basic" THEN "None"
    ELSE IF kind = "ollama" THEN "core.OllamaSummarizer"
    ELSE "ValueError"

\* hasattr(summarizer_obj, 'summarize_structured'): only the OllamaSummarizer
\* of ghsum/summarizer.py has the method
HasStructured(obj) == obj = "OllamaSummarizer"

\* bool(x) of a text or None
Truthy(x) == x # None /\ x # <<>>

\* item = {"name": name, "url": ..., "description": description}; the other
\* keys are in keys once they are set
NewItem(repo) ==
    [keys |-> {"name", "url", "description"},
     name |-> repo.name, url |-> repo.html_url, description |-> repo.description,
     languages |-> <<>>, readme |-> <<>>, readme_excerpt |-> <<>>,
     summary |-> <<>>, summary_decoded |-> FALSE, structured |-> NoRecord]
NoItem == NewItem(Repo(<<>>, FALSE, FALSE, <<>>))
NoOutput == [printed |-> FALSE, items |-> <<>>]

RunIdle ==
    /\ opts = [full |-> FALSE, readme |-> "none", summarizer |-> "basic", structured |-> FALSE]
    /\ pc = "idle"
    /\ summarizer_obj = "None"
    /\ repos = <<>>
    /\ item = NoItem
    /\ readme_text = None
    /\ items = <<>>
    /\ calls = <<>>
    /\ error = NoError
    /\ output = NoOutput
    /\ strategy = <<>>
    /\ answers = <<>>

RunInit ==
    /\ opts \in Options
    /\ pc = "start"
    /\ summarizer_obj = "None"
    /\ repos = <<>>
    /\ item = NoItem
    /\ readme_text = None
    /\ items = <<>>
    /\ calls = <<>>
    /\ error = NoError
    /\ output = NoOutput
    /\ strategy = <<>>
    /\ answers = <<>>
    /\ include_forks \in BOOLEAN
    /\ include_archived \in BOOLEAN
    /\ ListStart
    /\ listState = "idle"

\* a loop that runs through the listing from its end
CurrentBackwards == repos[Len(repos) - Len(items)]

\* a loop that hands the first repository to every call
CurrentFirst == repos[1]

\* the repository the summarize_repo call under way is for (an entry of calls
\* carries the function, the repository and the HTTP status of the answer of
\* the repository API, 0 for a call of the generative backend)
Current == repos[Len(items) + 1]

\* main up to the call of list_user_repos: the arguments are parsed and the
\* summarizer object is made
Configure ==
    /\ pc = "start"
    /\ IF ~InChoices(opts.summarizer)
       THEN /\ pc' = "aborted"
            /\ error' = SystemExit
            /\ UNCHANGED <<summarizer_obj, listState>>
       ELSE IF get_summarizer(opts.summarizer) = "ValueError"
       THEN /\ pc' = "aborted"
            /\ error' = ValueError
            /\ UNCHANGED <<summarizer_obj, listState>>
       ELSE /\ summarizer_obj' = get_summarizer(opts.summarizer)
            /\ listState' = "running"
            /\ pc' = "list"
            /\ error' = error
    /\ UNCHANGED <<answers, strategy, opts, repos, item, readme_text, items, calls, output>>
    /\ UNCHANGED <<include_forks, include_archived, page, results, listLog>>
    /\ UNCHANGED <<textVars, callVars, genVars, confVars>>

\* list_user_repos inside main, one page a step: its exception ends the run,
\* its result is repos
RunListPage ==
    /\ pc = "list"
    /\ ListPage(RunListResponses)
    /\ pc' = CASE listState' = "raised" -> "aborted"
               [] listState' = "returned" -> IF results' = <<>> THEN "output" ELSE "langs"
               [] OTHER -> "list"
    /\ repos' = IF listState' = "returned" THEN results' ELSE repos
    /\ error' = IF listState' = "raised" THEN HTTPStatusError ELSE error
    /\ UNCHANGED <<answers, strategy, opts, summarizer_obj, item, readme_text, items, calls, output>>
    /\ UNCHANGED <<textVars, callVars, genVars, confVars>>

\* summarize_repo from its start through the languages: the item is made,
\* and with include_langs the languages are fetched
RepoLanguages ==
    /\ pc = "langs"
    /\ IF opts.full
       THEN \E resp \in RunLangResponses :
            LET langs == get_languages(resp)
            IN  /\ calls' = Append(calls, [fn |-> "get_languages", repo |-> Current.name,
                                               status |-> resp.status])
                /\ answers' = Append(answers, resp)
                /\ IF langs.raised
                   THEN /\ pc' = "aborted"
                        /\ error' = HTTPStatusError
                        /\ item' = NewItem(Current)
                   ELSE /\ pc' = "readme"
                        /\ error' = error
                        /\ item' = [NewItem(Current) EXCEPT
                                        !.keys = @ \cup {"languages"},
                                        !.languages = _top_langs(langs.langs)]
       ELSE /\ item' = NewItem(Current)
            /\ pc' = "readme"
            /\ UNCHANGED <<calls, answers, error>>
    /\ UNCHANGED <<strategy, opts, summarizer_obj, repos, readme_text, items, output>>
    /\ UNCHANGED <<textVars, listVars, callVars, genVars, confVars>>

\* a readme_text that keeps the text of the repository before
StaleReadmeText == readme_text

\* readme_text = None at the start of the README part
FreshReadmeText == None

\* the README part of summarize_repo
RepoReadme ==
    /\ pc = "readme"
    /\ IF opts.readme # "none"
       THEN \E resp \in RunReadmeResponses :
            LET r == get_readme(resp)
                text == IF opts.readme = "full" THEN _clean_markdown(r)
                        ELSE _excerpt(r, DefaultWordLimit)
            IN  /\ calls' = Append(calls, [fn |-> "get_readme", repo |-> Current.name,
                                               status |-> resp.status])
                /\ answers' = Append(answers, resp)
                /\ IF r = HTTPStatusError
                   THEN /\ pc' = "aborted"
                        /\ error' = HTTPStatusError
                        /\ readme_text' = None
                        /\ item' = item
                   ELSE /\ pc' = "summary"
                        /\ error' = error
                        /\ readme_text' = IF Truthy(r) THEN text ELSE FreshReadmeText
                        /\ item' = IF ~Truthy(r) THEN item
                                   ELSE IF opts.readme = "full"
                                   THEN [item EXCEPT !.keys = @ \cup {"readme"},
                                                     !.readme = text]
                                   ELSE [item EXCEPT !.keys = @ \cup {"readme_excerpt"},
                                                     !.readme_excerpt = text]
       ELSE /\ readme_text' = FreshReadmeText
            /\ pc' = "summary"
            /\ UNCHANGED <<calls, answers, error, item>>
    /\ UNCHANGED <<strategy, opts, summarizer_obj, repos, items, output>>
    /\ UNCHANGED <<textVars, listVars, callVars, genVars, confVars>>

\* where main goes when summarize_repo has returned its item
AfterItem == IF Len(items) + 1 = Len(repos) THEN "output" ELSE "langs"

\* summarize_repo returns item; the comprehension of main takes it
ReturnItem(it) ==
    /\ items' = Append(items, it)
    /\ item' = it
    /\ pc' = AfterItem
    /\ error' = error

\* summarize_repo raises
Raise(exc) ==
    /\ pc' = "aborted"
    /\ error' = exc
    /\ UNCHANGED <<items, item>>

\* lines 137-148 of summarize_repo: the strategy is invoked with readme_text
\* as its base text
RunStrategy(name, description) ==
    IF summarizer_obj = "None"
    THEN LET summary == basic_summary(name, readme_text, description)
         IN  /\ UNCHANGED <<calls, answers>>
             /\ IF summary = AttributeError
                THEN Raise(AttributeError)
                ELSE ReturnItem([item EXCEPT !.keys = @ \cup {"summary"},
                                             !.summary = summary])
    ELSE IF opts.structured /\ HasStructured(summarizer_obj)
    THEN \E reply \in StructReplies :
         LET structured == summarize_structured(name, description, reply)
         IN  /\ calls' = Append(calls, [fn |-> "summarize_structured", repo |-> name,
                                        status |-> 0])
             /\ answers' = Append(answers, reply)
             /\ ReturnItem([item EXCEPT !.keys = @ \cup {"summary", "structured"},
                                        !.summary = structured.rec.description,
                                        !.structured = structured.rec])
    ELSE \E reply \in RunReplies :
         LET summary == core_summarize(reply)
         IN  /\ calls' = Append(calls, [fn |-> "summarize", repo |-> name,
                                        status |-> 0])
             /\ answers' = Append(answers, reply)
             /\ IF summary.raised
                THEN Raise(BackendError)
                ELSE ReturnItem([item EXCEPT !.keys = @ \cup {"summary"},
                                             !.summary = summary.text,
                                             !.summary_decoded = summary.decoded])

\* the summary part of summarize_repo, and its return
RepoSummary ==
    /\ pc = "summary"
    /\ LET name == item.name
           description == item.description
           base_text == IF Truthy(readme_text) THEN readme_text ELSE description
       IN  IF ~Truthy(base_text)
           THEN ReturnItem(item) /\ UNCHANGED <<calls, answers, strategy>>
           ELSE /\ strategy' = Append(strategy, [repo |-> name, base_text |-> base_text,
                                                 arg |-> readme_text])
                /\ RunStrategy(name, description)
    /\ UNCHANGED <<opts, summarizer_obj, repos, readme_text, output>>
    /\ UNCHANGED <<textVars, listVars, callVars, genVars, confVars>>

\* the end of main: the items are serialized and printed or written
Output ==
    /\ pc = "output"
    /\ output' = [printed |-> TRUE, items |-> items]
    /\ pc' = "done"
    /\ UNCHANGED <<answers, strategy, opts, summarizer_obj, repos, item, readme_text, items, calls, error>>
    /\ UNCHANGED <<textVars, listVars, callVars, genVars, confVars>>

\* ------------------------------------------------------------------------
\* The configuration (ghsum/core/config.py, main of ghsum/cli/main.py)
\* ------------------------------------------------------------------------

\* a value a source gives, or the source giving none (v is then a filler)
Given(v) == [given |-> TRUE, v |-> v]
Missing(v) == [given |-> FALSE, v |-> v]

\* os.getenv(name, default) and dict.get(key, default)
Getenv(var, default) == IF var.given THEN var.v ELSE default
DictGet(entry, default) == IF entry.given THEN entry.v ELSE default

\* x or y of two strings
StrOr(x, y) == IF x # "" THEN x ELSE y

\* int(text) of a decimal numeral
DigitVal(c) == (CHOOSE i \in 1..10 : <<"0", "1", "2", "3", "4", "5", "6", "7", "8", "9">>[i] = c) - 1
RECURSIVE ParseInt(_)
ParseInt(text) ==
    IF text = <<>> THEN 0
    ELSE 10 * ParseInt(SubSeq(text, 1, Len(text) - 1)) + DigitVal(text[Len(text)])

\* the defaults of the dataclass Settings and of the arguments of main
DefaultNumCtx == 8192
DefaultKind == "basic"
DefaultModel == "llama3.2:3b"
DefaultBaseUrl == "http://localhost:11434"

\* the command lines: --summarizer, --model, --include-forks, --include-archived
CommandLines ==
    [summarizer : {Missing(""), Given("basic"), Given("ollama")},
     model : {Missing(""), Given("mc")},
     include_forks : BOOLEAN,
     include_archived : BOOLEAN]

\* the environments: SUMMARIZER, SUMMARY_MODEL, SUMMARY_NUM_CTX, OLLAMA_BASE_URL
Environments ==
    [SUMMARIZER : {Missing(""), Given("ollama")},
     SUMMARY_MODEL : {Missing(""), Given("me")},
     SUMMARY_NUM_CTX : {Missing(<<>>), Given(<<"4", "0", "9", "6">>)},
     OLLAMA_BASE_URL : {Missing(""), Given("ue")}]

\* the files config.toml: [summarizer] kind, model, num_ctx and [github]
\* include_forks, include_archived
ConfigFiles ==
    [kind : {Missing(""), Given("ollama")},
     model : {Missing(""), Given("mf")},
     num_ctx : {Missing(0), Given(2048)},
     include_forks : {Missing(FALSE), Given(TRUE), Given(FALSE)},
     include_archived : {Missing(FALSE), Given(TRUE)}]

\* load_settings(config_path) in the environment env with the file file
load_settings(env, file) ==
    [summarizer_kind |-> Getenv(env.SUMMARIZER, DictGet(file.kind, DefaultKind)),
     model |-> Getenv(env.SUMMARY_MODEL, DictGet(file.model, DefaultModel)),
     num_ctx |-> IF env.SUMMARY_NUM_CTX.given THEN ParseInt(env.SUMMARY_NUM_CTX.v)
                 ELSE DictGet(file.num_ctx, DefaultNumCtx),
     ollama_base_url |-> Getenv(env.OLLAMA_BASE_URL,
                                Getenv(env.OLLAMA_BASE_URL, DefaultBaseUrl)),
     include_forks |-> DictGet(file.include_forks, FALSE),
     include_archived |-> DictGet(file.include_archived, FALSE)]

\* p.parse_args(): the defaults of --summarizer and --model, the store_true
\* flags
parse_args(cli) ==
    [summarizer |-> IF cli.summarizer.given THEN cli.summarizer.v ELSE DefaultKind,
     model |-> IF cli.model.given THEN cli.model.v ELSE DefaultModel,
     include_forks |-> cli.include_forks,
     include_archived |-> cli.include_archived]

\* the effective settings of main, as it hands them to get_summarizer and
\* list_user_repos
EffectiveSettings(args, s) ==
    [summarizer_kind |-> StrOr(args.summarizer, s.summarizer_kind),
     model_name |-> StrOr(args.model, s.model),
     num_ctx |-> s.num_ctx,
     base_url |-> s.ollama_base_url,
     include_forks |-> args.include_forks,
     include_archived |-> args.include_archived]

NoSettings == load_settings([SUMMARIZER |-> Missing(""), SUMMARY_MODEL |-> Missing(""),
                             SUMMARY_NUM_CTX |-> Missing(<<>>),
                             OLLAMA_BASE_URL |-> Missing("")],
                            [kind |-> Missing(""), model |-> Missing(""),
                             num_ctx |-> Missing(0), include_forks |-> Missing(FALSE),
                             include_archived |-> Missing(FALSE)])
NoEffective ==
    EffectiveSettings([summarizer |-> "", model |-> "", include_forks |-> FALSE,
                       include_archived |-> FALSE], NoSettings)

ConfIdle ==
    /\ confCli = [summarizer |-> Missing(""), model |-> Missing(""),
                  include_forks |-> FALSE, include_archived |-> FALSE]
    /\ confEnv = [SUMMARIZER |-> Missing(""), SUMMARY_MODEL |-> Missing(""),
                  SUMMARY_NUM_CTX |-> Missing(<<>>), OLLAMA_BASE_URL |-> Missing("")]
    /\ confFile = [kind |-> Missing(""), model |-> Missing(""), num_ctx |-> Missing(0),
                   include_forks |-> Missing(FALSE), include_archived |-> Missing(FALSE)]
    /\ settings = NoSettings
    /\ effective = NoEffective
    /\ confPc = "idle"

ConfInit ==
    /\ confCli \in CommandLines
    /\ confEnv \in Environments
    /\ confFile \in ConfigFiles
    /\ settings = NoSettings
    /\ effective = NoEffective
    /\ confPc = "start"

\* s = load_settings(args.config or "config.toml")
LoadSettings ==
    /\ confPc = "start"
    /\ settings' = load_settings(confEnv, confFile)
    /\ confPc' = "loaded"
    /\ UNCHANGED <<confCli, confEnv, confFile, effective>>
    /\ UNCHANGED <<textVars, listVars, callVars, genVars, runVars>>

\* the effective settings of main
TakeEffect ==
    /\ confPc = "loaded"
    /\ effective' = EffectiveSettings(parse_args(confCli), settings)
    /\ confPc' = "effective"
    /\ UNCHANGED <<confCli, confEnv, confFile, settings>>
    /\ UNCHANGED <<textVars, listVars, callVars, genVars, runVars>>

\* ------------------------------------------------------------------------
\* Specifications
\* ------------------------------------------------------------------------

\* the text functions on every text of Texts
SpecTextInit == TextInit /\ ListIdle /\ cCall = "idle" /\ CallIdle /\ GenIdle /\ RunIdle /\ ConfIdle
SpecTextNext == CallExcerpt \/ CallCleanMarkdown \/ CallBasicSummary \/ CallTopLangs
SpecText == SpecTextInit /\ [][SpecTextNext]_vars

\* the client functions against every remote
SpecClientInit == ClientInit /\ TextIdle /\ GenIdle /\ RunIdle /\ ConfIdle
SpecClientNext == CallListPage \/ CallGetReadme \/ CallGetLanguages
SpecClient == SpecClientInit /\ [][SpecClientNext]_vars

\* the methods of the generative summarizer against every backend reply
SpecGenInit == GenInit /\ TextIdle /\ ListIdle /\ cCall = "idle" /\ CallIdle /\ RunIdle /\ ConfIdle
SpecGenNext == CallSummarize \/ CallCoreSummarize \/ CallSummarizeStructured
SpecGen == SpecGenInit /\ [][SpecGenNext]_vars

\* a run of main against every remote and backend
Init == RunInit /\ TextIdle /\ cCall = "idle" /\ CallIdle /\ GenIdle /\ ConfIdle
Next == Configure \/ RunListPage \/ RepoLanguages \/ RepoReadme \/ RepoSummary \/ Output
Spec == Init /\ [][Next]_vars

\* the configuration of main for every command line, environment and file
SpecConfigInit ==
    ConfInit /\ TextIdle /\ ListIdle /\ cCall = "idle" /\ CallIdle /\ GenIdle /\ RunIdle
SpecConfigNext == LoadSettings \/ TakeEffect
SpecConfig == SpecConfigInit /\ [][SpecConfigNext]_vars

\* ------------------------------------------------------------------------
\* Claims
\* ------------------------------------------------------------------------

\* C1: a failure of the generative backend (timeout, connection failure,
\* non-2xx) while a repository is summarized is never propagated: the run is
\* not ended by it.
C1_BackendFailureContained ==
    ~(pc = "aborted" /\ error = BackendError)

\* C2: for a repository with the description "A CLI tool" and no README text
\* (README absent, or readme mode none), summarize_repo with the basic
\* summarizer returns an item without readme_excerpt whose summary is the
\* description.
C2_DescriptionSummary ==
    (summarizer_obj = "None" /\ readme_text = None) =>
        /\ ~(pc = "aborted" /\ error = AttributeError /\ item.description = DescCli)
        /\ (/\ pc \in {"langs", "output", "done"}
            /\ items # <<>>
            /\ items[Len(items)].description = DescCli)
                => /\ "summary" \in items[Len(items)].keys
                   /\ items[Len(items)].summary = DescCli
                   /\ "readme_excerpt" \notin items[Len(items)].keys

\* C3: basic_summary never returns an empty string when the base text, the
\* description or the repository name is non-empty (read here, in the
\* claim's favour, as: holds a character that is no whitespace).
C3_NeverEmpty ==
    (/\ tFn = "basic_summary"
     /\ (Strip(tText) # <<>> \/ Strip(tDesc) # <<>> \/ Strip(tName) # <<>>))
        => tOut # <<>>

\* the items of every page answered so far, in order
RECURSIVE SeenItems(_)
SeenItems(log) ==
    IF log = <<>> THEN <<>> ELSE log[1].batch \o SeenItems(Tail(log))

C6_ListingError ==
    \A i \in 1..Len(listLog) :
        listLog[i].status \div 100 # 2 =>
            /\ i = Len(listLog)
            /\ listState = "raised"
            /\ pc = "aborted"
            /\ error = HTTPStatusError
            /\ repos = <<>>
            /\ items = <<>>
            /\ calls = <<>>
            /\ output = NoOutput

\* page 2 is answered with 403 after page 1 gave items the filter kept
C6_Witness ==
    /\ Len(listLog) = 2
    /\ listLog[2].status = 403
    /\ results # <<>>
    /\ pc = "aborted"
    /\ repos = <<>>
    /\ ~output.printed

IsSafeDefault(rec, repo_name, description) ==
    /\ rec.name = repo_name
    /\ rec.description = IF description = <<>> THEN StrRepositorySummary ELSE description
    /\ rec.technologies = <<>>
    /\ rec.complexity = StrMedium

\* C8: an answer that decodes to an object with 6 or more technologies, blank
\* ones counted, gives the safe default and raises nothing.
C8_TooManyTechnologies ==
    (/\ gFn = "summarize_structured"
     /\ gReply.ok
     /\ HasJsonSpan(gReply.tokens)
     /\ Decodable(JsonText(gReply.tokens))
     /\ Len(JsonLoads(JsonText(gReply.tokens)).technologies) >= 6)
        => (~gRet.raised /\ IsSafeDefault(gRet.rec, gName, gDesc))

\* an otherwise valid answer with 6 technologies, of which at most 5 are not
\* blank, is rejected
C8_Witness ==
    /\ gFn = "summarize_structured"
    /\ gReply.ok
    /\ HasJsonSpan(gReply.tokens)
    /\ Decodable(JsonText(gReply.tokens))
    /\ LET d == JsonLoads(JsonText(gReply.tokens))
       IN  /\ Len(d.technologies) = 6
           /\ Len(SelectSeq(d.technologies, LAMBDA tech : Strip(tech) # <<>>)) <= 5
           /\ RequiredFields \subseteq d.keys
           /\ d.wrong = {}
           /\ "complexity" \notin d.keys
    /\ IsSafeDefault(gRet.rec, gName, gDesc)

\* no span of the answer from an opening to a closing brace is a JSON object
NoDecodableSpan(resp) ==
    ~\E i \in 1..Len(resp) : \E j \in 1..Len(resp) :
        i < j /\ Decodable(SubSeq(resp, i, j))

\* C9: an answer without a decodable {...} span gives the safe default: the
\* repository name, the description or the placeholder for an empty one, no
\* technologies, complexity medium.
C9_NotJson ==
    (/\ gFn = "summarize_structured"
     /\ gReply.ok
     /\ NoDecodableSpan(gReply.tokens))
        => (~gRet.raised /\ IsSafeDefault(gRet.rec, gName, gDesc))

\* prose alone, for a repository without description
C9_Witness ==
    /\ gFn = "summarize_structured"
    /\ gReply.ok
    /\ gReply.tokens = <<Prose>>
    /\ gDesc = <<>>
    /\ gRet.rec.description = StrRepositorySummary
    /\ gRet.rec.name = gName

\* C10: the excerpt has at most word_limit words, for every text and every
\* word_limit >= 0.
C10_ExcerptWordLimit ==
    tFn = "_excerpt" => Len(Split(tOut)) <= tLimit

\* a text of more words than the limit is cut to the limit
C10_Witness ==
    /\ tFn = "_excerpt"
    /\ tLimit = 2
    /\ Len(Split(tText)) > 2
    /\ Len(Split(tOut)) = 2

\* the excerpt the scenario README is to give
ScenarioExcerpt ==
    <<"T", "i", "t", "l", "e", " ", "F", "i", "r", "s", "t", " ", "p", "a",
      "r", "a", "g", "r", "a", "p", "h", " ", "t", "e", "x", "t", " ", "h",
      "e", "r", "e", ".">>

\* the lines i..j of lines where i is the first non-blank line and j the
\* last line before the next blank one
FirstRun(lines) ==
    LET nonblank == {i \in 1..Len(lines) : Strip(lines[i]) # <<>>}
        a == Min(nonblank)
        b == CHOOSE j \in a..Len(lines) :
                /\ \A k \in a..j : k \in nonblank
                /\ j + 1 \in 1..Len(lines) => j + 1 \notin nonblank
    IN  IF nonblank = {} THEN <<>> ELSE SubSeq(lines, a, b)

\* C11: with the default word limit the excerpt is made of the first maximal
\* run of non-blank lines among the lines that are no badge line, a heading
\* line merged with the prose lines under it; the README of a badge, a blank
\* line, "# Title" and a prose line gives "Title First paragraph text here.".
C11_FirstParagraph ==
    (tFn = "_excerpt" /\ tLimit = DefaultWordLimit) =>
        LET lines == SelectSeq(SplitLines(tText), LAMBDA ln : ~IsBadgeLine(ln))
            run == FirstRun(lines)
        IN  /\ run # <<>> =>
                tOut = Join(Split(SubHashes(SubTickSpans(SubLinks(Join(run, <<SP>>))))),
                            <<SP>>)
            /\ tText = ScenarioReadme => tOut = ScenarioExcerpt

\* the scenario README has been excerpted
C11_Witness ==
    /\ tFn = "_excerpt"
    /\ tLimit = DefaultWordLimit
    /\ tText = ScenarioReadme
    /\ tOut = ScenarioExcerpt

\* C12: basic_summary works on the base text when that is not blank, else
\* on the description when that is not blank, else on the repository name:
\* its result is the one it gives for that text alone, and with empty base
\* text and empty description it is the repository name.
C12_Precedence ==
    tFn = "basic_summary" =>
        LET chosen == IF Strip(tText) # <<>> THEN tText
                      ELSE IF Strip(tDesc) # <<>> THEN tDesc
                      ELSE tName
        IN  /\ tOut = basic_summary(<<>>, chosen, <<>>)
            /\ (tText = <<>> /\ tDesc = <<>>) => tOut = tName

\* basic_summary(name, "", "") has returned the name
C12_Witness ==
    /\ tFn = "basic_summary"
    /\ tText = <<>>
    /\ tDesc = <<>>
    /\ tName = RepoName1
    /\ tOut = RepoName1

C14_ValidatedRecord ==
    (/\ gFn = "summarize_structured"
     /\ gReply.ok
     /\ HasJsonSpan(gReply.tokens)
     /\ Decodable(JsonText(gReply.tokens))
     /\ ~Invalid(JsonLoads(JsonText(gReply.tokens))))
        => LET techs == gRet.rec.technologies
           IN  /\ Len(techs) <= 5
               /\ \A i \in 1..Len(techs) : Lower(techs[i]) = techs[i]
               /\ \A i \in 1..Len(techs) : \A j \in 1..Len(techs) :
                    techs[i] = techs[j] => i = j
               /\ gRet.rec.complexity \in {StrSimple, StrMedium, StrComplex}

\* the byte count of a language of the profile, and its place in it
BytesOf(profile, lang) == profile[CHOOSE i \in 1..Len(profile) : profile[i][1] = lang][2]
PlaceOf(profile, lang) == CHOOSE i \in 1..Len(profile) : profile[i][1] = lang

\* C15: _top_langs gives at most 3 languages of the profile, each once, by
\* descending byte count, none with fewer bytes than a language left out, and
\* languages of equal count in the order of the profile.
C15_TopLanguages ==
    tFn = "_top_langs" =>
        LET named == {lProfile[i][1] : i \in 1..Len(lProfile)}
            chosen == {lTop[i] : i \in 1..Len(lTop)}
        IN  /\ Len(lTop) = IF Len(lProfile) < 3 THEN Len(lProfile) ELSE 3
            /\ chosen \subseteq named
            /\ Cardinality(chosen) = Len(lTop)
            /\ \A i \in 1..Len(lTop) : \A j \in 1..Len(lTop) :
                    i < j => \/ BytesOf(lProfile, lTop[i]) > BytesOf(lProfile, lTop[j])
                             \/ /\ BytesOf(lProfile, lTop[i]) = BytesOf(lProfile, lTop[j])
                                /\ PlaceOf(lProfile, lTop[i]) < PlaceOf(lProfile, lTop[j])
            /\ \A x \in chosen : \A y \in named \ chosen :
                    BytesOf(lProfile, y) <= BytesOf(lProfile, x)

\* four languages, the two largest of equal count, the smallest left out
C15_Witness ==
    /\ tFn = "_top_langs"
    /\ lProfile = <<<<"C", 1>>, <<"Go", 2>>, <<"JS", 2>>, <<"Py", 1>>>>
    /\ lTop = <<"Go", "JS", "C">>

\* C16: a run that completes outputs one item for each repository of the
\* listing, in the order of the listing (the order of the remote, filtered):
\* item i has the name and the url of repository i.
C16_OneItemPerRepository ==
    pc = "done" =>
        /\ repos = SelectSeq(SeenItems(listLog),
                             LAMBDA it : /\ it.fork => include_forks
                                         /\ it.archived => include_archived)
        /\ output.printed
        /\ Len(output.items) = Len(repos)
        /\ \A i \in 1..Len(repos) :
            /\ output.items[i].name = repos[i].name
            /\ output.items[i].url = repos[i].html_url

\* a run over two repositories, the fork listed first, has completed
C16_Witness ==
    /\ pc = "done"
    /\ listLog[1].batch = <<Repo(RepoName2, TRUE, FALSE, <<>>),
                            Repo(RepoName1, FALSE, FALSE, DescCli)>>
    /\ Len(repos) = 2
    /\ Len(output.items) = 2
    /\ output.items[1].name = RepoName2
    /\ output.items[2].name = RepoName1

\* C17: every item summarize_repo returns has the keys name, url,
\* description and summary; languages (at most 3), readme, readme_excerpt
\* and structured are the only other keys.
C17_ItemFields ==
    \A i \in 1..Len(items) :
        /\ {"name", "url", "description", "summary"} \subseteq items[i].keys
        /\ items[i].keys \subseteq {"name", "url", "description", "summary", "languages",
                                     "readme", "readme_excerpt", "structured"}
        /\ Len(items[i].languages) <= 3

\* C18, as stated: a summarizer kind outside the recognised ones ends the
\* run with the error get_summarizer raises.
C18_RaisedByGetSummarizer ==
    (opts.summarizer \notin {"basic", "ollama"} /\ pc \notin {"idle", "start"})
        => (pc = "aborted" /\ error = ValueError)

\* C18, amended: a summarizer kind outside the recognised ones ends the run
\* at configuration time, before any request to the repository API or the
\* backend; in main the error is the exit of the argument parser, and
\* get_summarizer is not reached.
C18_UnknownKindFailsFast ==
    (opts.summarizer \notin {"basic", "ollama"} /\ pc \notin {"idle", "start"})
        => /\ pc = "aborted"
           /\ error = SystemExit
           /\ listState = "idle"
           /\ listLog = <<>>
           /\ calls = <<>>
           /\ ~output.printed

\* the run for an unknown kind has ended in the argument parser
C18_Witness ==
    /\ opts.summarizer = "other"
    /\ pc = "aborted"
    /\ error = SystemExit
    /\ listLog = <<>>

\* the value the precedence gives: the explicit parameter, else the
\* environment, else the file, else the built-in default
ByPrecedence(cli, env, file, builtin) ==
    IF cli.given THEN cli.v
    ELSE IF env.given THEN env.v
    ELSE IF file.given THEN file.v
    ELSE builtin

\* C19: the effective value of summarizer kind, model, context length,
\* backend URL, include-forks and include-archived is the explicit command
\* line parameter, else the environment value, else the value of the config
\* file, else the built-in default (a flag given on the command line is the
\* explicit value true; an option a source has no name for is not given by
\* that source).
C19_Precedence ==
    confPc = "effective" =>
        /\ effective.summarizer_kind =
                ByPrecedence(confCli.summarizer, confEnv.SUMMARIZER, confFile.kind, "basic")
        /\ effective.model_name =
                ByPrecedence(confCli.model, confEnv.SUMMARY_MODEL, confFile.model,
                             "llama3.2:3b")
        /\ effective.num_ctx =
                ByPrecedence(Missing(0),
                             IF confEnv.SUMMARY_NUM_CTX.given THEN Given(4096) ELSE Missing(0),
                             confFile.num_ctx, 8192)
        /\ effective.base_url =
                ByPrecedence(Missing(""), confEnv.OLLAMA_BASE_URL, Missing(""),
                             "http://localhost:11434")
        /\ effective.include_forks =
                ByPrecedence(IF confCli.include_forks THEN Given(TRUE) ELSE Missing(FALSE),
                             Missing(FALSE), confFile.include_forks, FALSE)
        /\ effective.include_archived =
                ByPrecedence(IF confCli.include_archived THEN Given(TRUE) ELSE Missing(FALSE),
                             Missing(FALSE), confFile.include_archived, FALSE)

\* a failed metadata call: get_languages answered outside 2xx, or get_readme
\* answered outside 2xx with another status than 404
MetadataFailure(call) ==
    \/ call.fn = "get_languages" /\ call.status \div 100 # 2
    \/ call.fn = "get_readme" /\ call.status \div 100 # 2 /\ call.status # 404

\* C20: a failed metadata call for any repository is fatal to the run: the
\* run has ended with the HTTP error, nothing is output (the items built for
\* earlier repositories included), and no request follows the failed one.
C20_MetadataFailureFatal ==
    \A i \in 1..Len(calls) :
        MetadataFailure(calls[i]) =>
            /\ i = Len(calls)
            /\ pc = "aborted"
            /\ error = HTTPStatusError
            /\ output = NoOutput

\* the README request of the second repository fails after the item of the
\* first was built from its own requests
C20_Witness ==
    /\ Len(repos) = 2
    /\ Len(items) = 1
    /\ "summary" \in items[1].keys
    /\ Len(calls) >= 3
    /\ calls[1].repo = repos[1].name
    /\ calls[Len(calls)] = [fn |-> "get_readme", repo |-> repos[2].name, status |-> 500]
    /\ pc = "aborted"
    /\ ~output.printed

\* the base text of a finished item: its normalized README when it has one
\* with text, else its description
BaseTextOf(it) ==
    IF "readme" \in it.keys /\ Truthy(it.readme) THEN it.readme
    ELSE IF "readme_excerpt" \in it.keys /\ Truthy(it.readme_excerpt) THEN it.readme_excerpt
    ELSE it.description

\* the invocations of the strategy for the repository called name
InvocationsFor(name) == {k \in 1..Len(strategy) : strategy[k].repo = name}

\* the strategy is invoked for a repository exactly when its base text is not
\* empty, and that base text is the normalized README or else the description
InvokedIffBaseText ==
    \A i \in 1..Len(items) :
        /\ InvocationsFor(items[i].name) # {} <=> Truthy(BaseTextOf(items[i]))
        /\ \A k \in InvocationsFor(items[i].name) :
                strategy[k].base_text = BaseTextOf(items[i])

\* C21: summarize_repo takes the normalized README, or else the description,
\* for its base text, invokes the strategy exactly when the base text is not
\* empty, and hands the base text to the strategy as its base-text argument.
C21_BaseTextHanded ==
    /\ InvokedIffBaseText
    /\ \A k \in 1..Len(strategy) : strategy[k].arg = strategy[k].base_text

\* the place of the repository called name in the listing, and the place of
\* a call within summarize_repo
PlaceInListing(name) == CHOOSE k \in 1..Len(repos) : repos[k].name = name
StepOf(fn) == IF fn = "get_languages" THEN 1 ELSE IF fn = "get_readme" THEN 2 ELSE 3

\* C22: execution is sequential: no per-repository call is made before the
\* listing has returned; the calls run through the repositories in listing
\* order, none for a repository after one for a later repository; and within
\* a repository the language fetch comes before the README fetch, which comes
\* before the summarization call.
C22_Sequential ==
    /\ calls # <<>> \/ strategy # <<>> => listState = "returned" /\ repos = results
    /\ \A i \in 1..Len(calls) : \A j \in 1..Len(calls) :
            i < j =>
                \/ PlaceInListing(calls[i].repo) < PlaceInListing(calls[j].repo)
                \/ /\ calls[i].repo = calls[j].repo
                   /\ StepOf(calls[i].fn) < StepOf(calls[j].fn)
    /\ \A i \in 1..Len(calls) :
            /\ PlaceInListing(calls[i].repo) <= Len(items) + 1
            /\ PlaceInListing(calls[i].repo) = Len(items) + 1 =>
                    pc \in {"readme", "summary", "aborted"}
    /\ \A k \in 1..Len(strategy) : \A l \in 1..Len(strategy) :
            k < l => PlaceInListing(strategy[k].repo) < PlaceInListing(strategy[l].repo)

\* a run over two repositories with all three calls made for each
C22_Witness ==
    /\ pc = "done"
    /\ Len(repos) = 2
    /\ Len(calls) = 6
    /\ calls[3] = [fn |-> "summarize", repo |-> repos[1].name, status |-> 0]
    /\ calls[4].fn = "get_languages"
    /\ calls[4].repo = repos[2].name

\* the number of calls of fn made for the repository called name
CallCount(fn, name) ==
    Cardinality({i \in 1..Len(calls) : calls[i].fn = fn /\ calls[i].repo = name})

\* C23: no remote request is repeated and none is made that the requested
\* detail level does not need: every listing page is requested once; every
\* call is for a listed repository; for a repository get_languages is called
\* never without --full and get_readme never with README mode none, neither
\* more than once, and exactly once for a repository whose item is finished;
\* the strategy is invoked at most once for a repository.
C23_SinglePass ==
    /\ \A i \in 1..Len(listLog) : listLog[i].page = i
    /\ \A i \in 1..Len(calls) : \E k \in 1..Len(repos) : repos[k].name = calls[i].repo
    /\ \A k \in 1..Len(repos) :
        LET name == repos[k].name
        IN  /\ CallCount("get_languages", name) <= (IF opts.full THEN 1 ELSE 0)
            /\ CallCount("get_readme", name) <= (IF opts.readme # "none" THEN 1 ELSE 0)
            /\ k <= Len(items) =>
                    /\ CallCount("get_languages", name) = (IF opts.full THEN 1 ELSE 0)
                    /\ CallCount("get_readme", name) =
                            (IF opts.readme # "none" THEN 1 ELSE 0)
            /\ CallCount("summarize", name) + CallCount("summarize_structured", name) <= 1
            /\ Cardinality(InvocationsFor(name)) <= 1

\* a finished run of two listing pages and two repositories with languages
\* and README excerpts
C23_Witness ==
    /\ pc = "done"
    /\ opts.full
    /\ opts.readme = "excerpt"
    /\ Len(listLog) = 2
    /\ Len(items) = 2
    /\ CallCount("get_languages", repos[2].name) = 1
    /\ CallCount("get_readme", repos[2].name) = 1

\* markdown syntax left in a text: a link [text](url), an image ![...](...)
\* on a line, three backticks in a row
HasLink(s) == \E i \in 1..Len(s) : LinkAt(s, i)
HasImage(s) == \E i \in 1..Len(SplitLines(s)) : IsBadgeLine(SplitLines(s)[i])
HasFence(s) == \E i \in 1..Len(s) : Fence(s, i)

\* C24: for every input the output of _clean_markdown holds no link syntax
\* [text](url), no image syntax ![...](...) and no run of three backticks.
C24_NoMarkdownLeft ==
    tFn = "_clean_markdown" => ~HasLink(tOut) /\ ~HasImage(tOut) /\ ~HasFence(tOut)

\* the text that remains when the image/badge lines are dropped
WithoutBadges(text) == Join(DropBadges(text), <<NL>>)

\* a text made of image/badge lines and blank lines only
OnlyBadgesAndBlanks(text) ==
    \A i \in 1..Len(SplitLines(text)) :
        IsBadgeLine(SplitLines(text)[i]) \/ Strip(SplitLines(text)[i]) = <<>>

\* C25: the excerpt is made of the lines that are no image/badge line: it is
\* the excerpt of the text without those lines, and a text of badge lines and
\* blank lines only has the empty excerpt.
C25_BadgesDropped ==
    tFn = "_excerpt" =>
        /\ tOut = _excerpt(WithoutBadges(tText), tLimit)
        /\ OnlyBadgesAndBlanks(tText) => tOut = <<>>

\* a text of one paragraph: it has lines and none of them is blank
SingleParagraph(text) ==
    /\ SplitLines(text) # <<>>
    /\ \A i \in 1..Len(SplitLines(text)) : Strip(SplitLines(text)[i]) # <<>>

\* C26: for a text of one paragraph without fences and without badge lines,
\* the words of the full-mode cleaning are the words of the excerpt taken
\* with a word limit larger than the text.
C26_SameStripping ==
    (/\ tFn = "_clean_markdown"
     /\ SingleParagraph(tText)
     /\ ~HasFence(tText)
     /\ ~HasImage(tText))
        => Split(tOut) = Split(_excerpt(tText, DefaultWordLimit))

\* the first balanced {...} span of an answer: from its first opening brace
\* to the first place where as many braces have closed as have opened
BraceCount(resp, tok, from, to) == Cardinality({i \in from..to : resp[i].t = tok})
BalancedEnds(resp) ==
    {j \in Find(resp, "{") + 1..Len(resp) :
        BraceCount(resp, "{", Find(resp, "{") + 1, j)
            = BraceCount(resp, "}", Find(resp, "{") + 1, j)}
FirstBalancedSpan(resp) == SubSeq(resp, Find(resp, "{") + 1, Min(BalancedEnds(resp)))

\* C27: when the first balanced {...} span of the answer is a JSON object
\* that satisfies the schema, summarize_structured returns the record decoded
\* from that span, whatever text or braces come before or after it.
C27_FirstBalancedSpan ==
    (/\ gFn = "summarize_structured"
     /\ gReply.ok
     /\ Find(gReply.tokens, "{") # -1
     /\ BalancedEnds(gReply.tokens) # {}
     /\ Decodable(FirstBalancedSpan(gReply.tokens))
     /\ ~Invalid(JsonLoads(FirstBalancedSpan(gReply.tokens))))
        => gRet.rec = RepositorySummary(JsonLoads(FirstBalancedSpan(gReply.tokens)))

\* the answers given to the calls for the repository called name, in the
\* order of the calls
AnswersFor(name) ==
    LET at == {i \in 1..Len(calls) : calls[i].repo = name}
        RECURSIVE Pick(_)
        Pick(rest) ==
            IF rest = {} THEN <<>>
            ELSE <<answers[Min(rest)]>> \o Pick(rest \ {Min(rest)})
    IN  Pick(at)

\* the item as a function of the repository record, the answers to the calls
\* made for the repository and the options of the run
ItemOf(repo, ans) ==
    LET nl == IF opts.full THEN 1 ELSE 0
        nr == nl + (IF opts.readme # "none" THEN 1 ELSE 0)
        it1 == IF opts.full
               THEN [NewItem(repo) EXCEPT
                        !.keys = @ \cup {"languages"},
                        !.languages = _top_langs(get_languages(ans[nl]).langs)]
               ELSE NewItem(repo)
        r == IF opts.readme # "none" THEN get_readme(ans[nr]) ELSE None
        text == IF ~Truthy(r) THEN None
                ELSE IF opts.readme = "full" THEN _clean_markdown(r)
                ELSE _excerpt(r, DefaultWordLimit)
        it2 == IF ~Truthy(r) THEN it1
               ELSE IF opts.readme = "full"
               THEN [it1 EXCEPT !.keys = @ \cup {"readme"}, !.readme = text]
               ELSE [it1 EXCEPT !.keys = @ \cup {"readme_excerpt"}, !.readme_excerpt = text]
        base_text == IF Truthy(text) THEN text ELSE repo.description
    IN  IF ~Truthy(base_text) THEN it2
        ELSE IF opts.summarizer = "basic"
        THEN [it2 EXCEPT !.keys = @ \cup {"summary"},
                         !.summary = basic_summary(repo.name, text, repo.description)]
        ELSE [it2 EXCEPT !.keys = @ \cup {"summary"},
                         !.summary = core_summarize(ans[nr + 1]).text,
                         !.summary_decoded = core_summarize(ans[nr + 1]).decoded]

\* C28: every item is built independently: the item of a repository is a
\* function of its record, of the answers to the calls made for it and of the
\* options of the run, whatever other repositories are listed and whatever
\* was answered for them; and the records of the listing are left as fetched.
C28_IndependentItems ==
    /\ \A i \in 1..Len(items) : items[i] = ItemOf(repos[i], AnswersFor(repos[i].name))
    /\ pc \in {"langs", "readme", "summary", "output", "done"} => repos = results

\* a finished run over two repositories, the second of which has neither a
\* README nor a description while the first has a summary from its README
C28_Witness ==
    /\ pc = "done"
    /\ Len(items) = 2
    /\ opts.readme = "excerpt"
    /\ "readme_excerpt" \in items[1].keys
    /\ "summary" \in items[1].keys
    /\ items[2].description = <<>>
    /\ "readme_excerpt" \notin items[2].keys
    /\ "summary" \notin items[2].keys

\* C29: full-mode cleaning is idempotent: cleaning the output of
\* _clean_markdown again gives that output.
C29_CleanIdempotent ==
    tFn = "_clean_markdown" => _clean_markdown(tOut) = tOut

\* the answer decodes to an object that is valid but for its name, given or
\* not
ValidButForName(resp) ==
    /\ HasJsonSpan(resp)
    /\ Decodable(JsonText(resp))
    /\ ~Invalid([JsonLoads(JsonText(resp)) EXCEPT !.keys = @ \cup {"name"}])

\* C30: every record summarize_structured returns, decoded or safe default,
\* has the repo_name argument for its name, and an answer with valid
\* description, purpose, technologies, complexity and target audience is
\* accepted (its description and purpose are returned) with or without a name.
C30_NameIsRepoName ==
    gFn = "summarize_structured" =>
        /\ gRet.rec.name = gName
        /\ (gReply.ok /\ ValidButForName(gReply.tokens)) =>
                /\ gRet.rec.description = JsonLoads(JsonText(gReply.tokens)).description
                /\ gRet.rec.purpose = JsonLoads(JsonText(gReply.tokens)).purpose

\* an answer that is valid but for its name is accepted
AcceptedWithoutName ==
    (gFn = "summarize_structured" /\ gReply.ok /\ ValidButForName(gReply.tokens)) =>
        gRet.rec.purpose = JsonLoads(JsonText(gReply.tokens)).purpose

====
